---- MODULE Spec2Model ----
(***************************************************************************)
(* Fee-payer relay of rpc/backend/fee_payer.go: callers enqueue Ethereum   *)
(* messages on a buffered channel, a single Worker goroutine signs each    *)
(* one with the fee payer's cached (account number, sequence), broadcasts  *)
(* it and answers on the request's one-slot reply channel.                 *)
(*                                                                         *)
(* Sequences are Go uint64; the model keeps them far below 2^64, so the    *)
(* wrap-around of accountSeq++ is outside the model.                       *)
(***************************************************************************)
EXTENDS Integers, Sequences, FiniteSets, TLC

\* ---------------------------------------------------------------- bounds
\* Requests created in one run (each has its own reply channel).
MaxReq == 3
\* Capacity of fp.messages; the program uses 1<<14 (fee_payer.go:81).
QueueCap == 1
\* Largest sequence the ledger starts with or is moved to by other parties.
MaxLedgerSeq == 1
\* Largest base fee and largest base-fee change denominator given to
\* calculateFeePayerFees when it is checked on its own.
MaxBaseFee == 125
MaxDenominator == 8

\* ------------------------------------------------------- program constants
baseFeeDeltaBlocks == 2
ErrTxInMempoolCacheCode == 19
ErrWrongSequenceCode == 32
\* Capacity of a reply channel: make(chan res, 1).
RetCap == 1

\* ------------------------------------------------------------ input sets
AccNums == {2}
\* 5 stands for every other rejection code.
Codes == {0, ErrTxInMempoolCacheCode, ErrWrongSequenceCode, 5}
Codespaces == {"sdk", "evm"}
BaseFees == {0, 123}
Denominators == {8}
ZeroHash == 0

\* ethereumMsg.GetGas()
GetGas(m) == IF m % 2 = 1 THEN 21000 ELSE 100000

\* msg.Msg.AsTransaction().Hash(): a non-zero hash that depends on the
\* message only.
Hash(m) == 1000 + m

\* Zero value of the Worker's local `msg`.
NoMsg == [Msg |-> 0, EvmDenom |-> "", Ret |-> 0]

VARIABLES
    messages,    \* fp.messages: buffered channel of msg
    ret,         \* reply channels by id: the buffered result, if any
    nextRet,     \* id of the next reply channel made by enqueueMsg
    pc,          \* position of the Worker goroutine
    msg,         \* Worker local msg
    accountSeq,  \* Worker local accountSeq
    accountNum,  \* Worker local accountNum
    getAccount,  \* Worker local getAccount
    resp,        \* Worker local resp
    err,         \* Worker local err
    ledgerSeq,   \* the ledger's sequence of the fee payer account
    ledgerNum,   \* the ledger's account number of the fee payer
    ctxDone,     \* fp.ctx.Done() is closed
    iter,        \* history: the current (or last) iteration in detail
    dups,        \* history: duplicate-pending answers since the last account query
    log,         \* history: one short record per result the Worker sent
    quote        \* one call of calculateFeePayerFees and buildTx on its own

vars == <<messages, ret, nextRet, pc, msg, accountSeq, accountNum,
          getAccount, resp, err, ledgerSeq, ledgerNum, ctxDone, iter, dups, log,
          quote>>

ReqIds == 1..MaxReq

\* --------------------------------------------------------------- values
\* Go errors: nil, a plain error, or errorsmod.ABCIError(codespace, code, log).
NoErr == [kind |-> "nil", code |-> 0, codespace |-> ""]
Err(k) == [kind |-> k, code |-> 0, codespace |-> ""]

\* *sdk.TxResponse: nil or {Code, Codespace}.
NilResp == [isNil |-> TRUE, Code |-> 0, Codespace |-> ""]
Resp(c, cs) == [isNil |-> FALSE, Code |-> c, Codespace |-> cs]

\* errorsmod.ABCIError(resp.Codespace, resp.Code, resp.RawLog)
ABCIError(r) == [kind |-> "abci", code |-> r.Code, codespace |-> r.Codespace]

\* res{TxHash, Error}
Res(h, e) == [TxHash |-> h, Error |-> e]

\* sdkmath.Int: isNil marks the zero value, whose big.Int pointer is nil.
NilInt == [isNil |-> TRUE, i |-> 0]
NewInt(n) == [isNil |-> FALSE, i |-> n]

\* Answers of the ledger query client.
BlockResults == {"ok", "err"}
BaseFeeResults ==
    {[kind |-> "err", val |-> 0], [kind |-> "absent", val |-> 0]} \cup
    {[kind |-> "value", val |-> f] : f \in BaseFees}
ParamsResults ==
    {[kind |-> "err", val |-> 0]} \cup
    {[kind |-> "value", val |-> d] : d \in Denominators}
\* clientCtx.BroadcastTx in sync mode returns (nil, err) or (resp, nil).
BroadcastResults ==
    {[resp |-> NilResp, err |-> Err("broadcast failed")]} \cup
    {[resp |-> Resp(c, cs), err |-> NoErr] : c \in Codes, cs \in Codespaces}

RECURSIVE Exp(_, _)
\* big.Int.Exp(x, y, nil)
Exp(x, y) == IF y = 0 THEN 1 ELSE x * Exp(x, y - 1)

\* math.BigMax
BigMax(a, b) == IF a < b THEN b ELSE a

\* Variant of EscalatedFee: the division is made before the multiplication.
EscalatedFee_DivideFirst(baseFee, denominator, gas) ==
    LET d == Exp(denominator, baseFeeDeltaBlocks)
        m == Exp(denominator + 1, baseFeeDeltaBlocks)
        newBaseFee == (baseFee \div d) * m
    IN  BigMax(newBaseFee, 1 * baseFeeDeltaBlocks) * gas

\* Variant of EscalatedFee: the minimum of baseFeeDeltaBlocks is left out.
EscalatedFee_NoFloor(baseFee, denominator, gas) ==
    LET d == Exp(denominator, baseFeeDeltaBlocks)
        m == Exp(denominator + 1, baseFeeDeltaBlocks)
        newBaseFee == (baseFee * m) \div d
    IN  newBaseFee * gas

\* The escalation of fee_payer.go:181-196 for a non-zero base fee.
EscalatedFee(baseFee, denominator, gas) ==
    LET d == Exp(denominator, baseFeeDeltaBlocks)
        m == Exp(denominator + 1, baseFeeDeltaBlocks)
        newBaseFee == (baseFee * m) \div d
    IN  BigMax(newBaseFee, 1 * baseFeeDeltaBlocks) * gas

\* Variant of calculateFeePayerFees: when the fee-market parameters cannot
\* be read the current base fee is used as it is.
calculateFeePayerFees_RawOnParamsErr(gas, blk, bf, pr) ==
    IF blk = "err"
    THEN [amount |-> NilInt, err |-> Err("failed to query latest block")]
    ELSE IF bf.kind \in {"err", "absent"}
    THEN [amount |-> NilInt, err |-> Err("failed to query base fee")]
    ELSE IF bf.val = 0
    THEN [amount |-> NilInt, err |-> NoErr]
    ELSE IF pr.kind = "err"
    THEN [amount |-> NewInt(bf.val * gas), err |-> NoErr]
    ELSE [amount |-> NewInt(EscalatedFee(bf.val, pr.val, gas)), err |-> NoErr]

\* calculateFeePayerFees(gas) with the answers of its three queries.
calculateFeePayerFees(gas, blk, bf, pr) ==
    IF blk = "err"
    THEN [amount |-> NilInt, err |-> Err("failed to query latest block")]
    ELSE IF bf.kind \in {"err", "absent"}
    THEN [amount |-> NilInt, err |-> Err("failed to query base fee")]
    ELSE IF bf.val = 0
    THEN [amount |-> NilInt, err |-> NoErr]   \* sdkmath.NewInt(0) is discarded
    ELSE IF pr.kind = "err"
    THEN [amount |-> NilInt, err |-> Err("failed to query params")]
    ELSE [amount |-> NewInt(EscalatedFee(bf.val, pr.val, gas)), err |-> NoErr]

\* One of the queries calculateFeePayerFees makes failed, or the base fee is
\* absent; the fee-market parameters are asked for a non-zero base fee only.
FeeQueryFailed(blk, bf, pr) ==
    \/ blk = "err"
    \/ bf.kind \in {"err", "absent"}
    \/ (bf.val # 0 /\ pr.kind = "err")

NoTx == [built |-> FALSE, Msg |-> 0, GasLimit |-> 0, Fees |-> <<>>,
         AccountNumber |-> 0, Sequence |-> 0]

\* Variant of buildTx: the signer data carry the sequence after this one.
buildTx_NextSeq(m, evmDenom, accountNumber, accountSequence, blk, bf, pr, signOk) ==
    LET gas == GetGas(m)
        fee == calculateFeePayerFees(gas, blk, bf, pr)
    IN  IF fee.err # NoErr
        THEN [panic |-> FALSE, err |-> fee.err, tx |-> NoTx]
        ELSE IF fee.amount.isNil
        THEN [panic |-> TRUE, err |-> NoErr, tx |-> NoTx]
        ELSE IF ~signOk
        THEN [panic |-> FALSE, err |-> Err("failed to sign transaction"),
              tx |-> NoTx]
        ELSE [panic |-> FALSE, err |-> NoErr,
              tx |-> [built |-> TRUE, Msg |-> m, GasLimit |-> gas,
                      Fees |-> IF fee.amount.i > 0
                               THEN <<[Denom |-> evmDenom, Amount |-> fee.amount.i]>>
                               ELSE <<>>,
                      AccountNumber |-> accountNumber,
                      Sequence |-> accountSequence + 1]]

\* buildTx: the envelope, an error, or a panic (feeAmt.Sign() dereferences
\* the nil big.Int of a zero-value sdkmath.Int).
buildTx(m, evmDenom, accountNumber, accountSequence, blk, bf, pr, signOk) ==
    LET gas == GetGas(m)
        fee == calculateFeePayerFees(gas, blk, bf, pr)
    IN  IF fee.err # NoErr
        THEN [panic |-> FALSE, err |-> fee.err, tx |-> NoTx]
        ELSE IF fee.amount.isNil
        THEN [panic |-> TRUE, err |-> NoErr, tx |-> NoTx]
        ELSE IF ~signOk
        THEN [panic |-> FALSE, err |-> Err("failed to sign transaction"),
              tx |-> NoTx]
        ELSE [panic |-> FALSE, err |-> NoErr,
              tx |-> [built |-> TRUE, Msg |-> m, GasLimit |-> gas,
                      Fees |-> IF fee.amount.i > 0
                               THEN <<[Denom |-> evmDenom, Amount |-> fee.amount.i]>>
                               ELSE <<>>,
                      AccountNumber |-> accountNumber,
                      Sequence |-> accountSequence]]

\* sendMsg: build, then broadcast; bc is BroadcastTx's answer.
sendMsg(m, evmDenom, accountNumber, accountSequence, blk, bf, pr, signOk, bc) ==
    LET b == buildTx(m, evmDenom, accountNumber, accountSequence, blk, bf, pr, signOk)
    IN  IF b.panic
        THEN [panic |-> TRUE, resp |-> NilResp, err |-> NoErr, tx |-> NoTx]
        ELSE IF b.err # NoErr
        THEN [panic |-> FALSE, resp |-> NilResp, err |-> b.err, tx |-> NoTx]
        ELSE [panic |-> FALSE, resp |-> bc.resp, err |-> bc.err, tx |-> b.tx]

\* Variants of HandleResult with a plausible slip each.
\* The sequence is not counted after a duplicate-pending answer.
HandleResult_NoIncOnDup(rsp, e, m, seq, get) ==
    IF e # NoErr
    THEN [reply |-> Res(ZeroHash, IF ~rsp.isNil THEN ABCIError(rsp) ELSE e),
          seq |-> seq, get |-> get]
    ELSE IF rsp.Code # 0 /\ rsp.Code # ErrTxInMempoolCacheCode
    THEN [reply |-> Res(ZeroHash, ABCIError(rsp)),
          seq |-> seq,
          get |-> IF rsp.Code = ErrWrongSequenceCode THEN TRUE ELSE get]
    ELSE [reply |-> Res(Hash(m), NoErr),
          seq |-> IF rsp.Code = 0 THEN seq + 1 ELSE seq, get |-> get]

\* A sequence mismatch does not set getAccount.
HandleResult_NoResync(rsp, e, m, seq, get) ==
    IF e # NoErr
    THEN [reply |-> Res(ZeroHash, IF ~rsp.isNil THEN ABCIError(rsp) ELSE e),
          seq |-> seq, get |-> get]
    ELSE IF rsp.Code # 0 /\ rsp.Code # ErrTxInMempoolCacheCode
    THEN [reply |-> Res(ZeroHash, ABCIError(rsp)), seq |-> seq, get |-> get]
    ELSE [reply |-> Res(Hash(m), NoErr), seq |-> seq + 1, get |-> get]

\* Every non-zero code is a rejection, the duplicate-pending one too.
HandleResult_DupRejected(rsp, e, m, seq, get) ==
    IF e # NoErr
    THEN [reply |-> Res(ZeroHash, IF ~rsp.isNil THEN ABCIError(rsp) ELSE e),
          seq |-> seq, get |-> get]
    ELSE IF rsp.Code # 0
    THEN [reply |-> Res(ZeroHash, ABCIError(rsp)),
          seq |-> seq,
          get |-> IF rsp.Code = ErrWrongSequenceCode THEN TRUE ELSE get]
    ELSE [reply |-> Res(Hash(m), NoErr), seq |-> seq + 1, get |-> get]

\* A failed sendMsg schedules an account query.
HandleResult_ErrResync(rsp, e, m, seq, get) ==
    IF e # NoErr
    THEN [reply |-> Res(ZeroHash, IF ~rsp.isNil THEN ABCIError(rsp) ELSE e),
          seq |-> seq, get |-> TRUE]
    ELSE IF rsp.Code # 0 /\ rsp.Code # ErrTxInMempoolCacheCode
    THEN [reply |-> Res(ZeroHash, ABCIError(rsp)),
          seq |-> seq,
          get |-> IF rsp.Code = ErrWrongSequenceCode THEN TRUE ELSE get]
    ELSE [reply |-> Res(Hash(m), NoErr), seq |-> seq + 1, get |-> get]

\* The sequence is counted before the code is looked at.
HandleResult_IncOnReject(rsp, e, m, seq, get) ==
    IF e # NoErr
    THEN [reply |-> Res(ZeroHash, IF ~rsp.isNil THEN ABCIError(rsp) ELSE e),
          seq |-> seq, get |-> get]
    ELSE IF rsp.Code # 0 /\ rsp.Code # ErrTxInMempoolCacheCode
    THEN [reply |-> Res(ZeroHash, ABCIError(rsp)),
          seq |-> seq + 1,
          get |-> IF rsp.Code = ErrWrongSequenceCode THEN TRUE ELSE get]
    ELSE [reply |-> Res(Hash(m), NoErr), seq |-> seq + 1, get |-> get]

\* The sequence is never counted.
HandleResult_NoInc(rsp, e, m, seq, get) ==
    IF e # NoErr
    THEN [reply |-> Res(ZeroHash, IF ~rsp.isNil THEN ABCIError(rsp) ELSE e),
          seq |-> seq, get |-> get]
    ELSE IF rsp.Code # 0 /\ rsp.Code # ErrTxInMempoolCacheCode
    THEN [reply |-> Res(ZeroHash, ABCIError(rsp)),
          seq |-> seq,
          get |-> IF rsp.Code = ErrWrongSequenceCode THEN TRUE ELSE get]
    ELSE [reply |-> Res(Hash(m), NoErr), seq |-> seq, get |-> get]

\* A rejection is reported together with the message's hash.
HandleResult_HashWithError(rsp, e, m, seq, get) ==
    IF e # NoErr
    THEN [reply |-> Res(ZeroHash, IF ~rsp.isNil THEN ABCIError(rsp) ELSE e),
          seq |-> seq, get |-> get]
    ELSE IF rsp.Code # 0 /\ rsp.Code # ErrTxInMempoolCacheCode
    THEN [reply |-> Res(Hash(m), ABCIError(rsp)),
          seq |-> seq,
          get |-> IF rsp.Code = ErrWrongSequenceCode THEN TRUE ELSE get]
    ELSE [reply |-> Res(Hash(m), NoErr), seq |-> seq + 1, get |-> get]

\* The duplicate-pending code counts only in the codespace that registers it.
HandleResult_SdkOnly(rsp, e, m, seq, get) ==
    IF e # NoErr
    THEN [reply |-> Res(ZeroHash, IF ~rsp.isNil THEN ABCIError(rsp) ELSE e),
          seq |-> seq, get |-> get]
    ELSE IF rsp.Code # 0
            /\ ~(rsp.Code = ErrTxInMempoolCacheCode /\ rsp.Codespace = "sdk")
    THEN [reply |-> Res(ZeroHash, ABCIError(rsp)),
          seq |-> seq,
          get |-> IF rsp.Code = ErrWrongSequenceCode THEN TRUE ELSE get]
    ELSE [reply |-> Res(Hash(m), NoErr), seq |-> seq + 1, get |-> get]

\* Lines 126-151 of Worker: what is sent on msg.Ret and the new values of
\* accountSeq and getAccount, from sendMsg's (resp, err).
HandleResult(rsp, e, m, seq, get) ==
    IF e # NoErr
    THEN [reply |-> Res(ZeroHash, IF ~rsp.isNil THEN ABCIError(rsp) ELSE e),
          seq |-> seq, get |-> get]
    ELSE IF rsp.Code # 0 /\ rsp.Code # ErrTxInMempoolCacheCode
    THEN [reply |-> Res(ZeroHash, ABCIError(rsp)),
          seq |-> seq,
          get |-> IF rsp.Code = ErrWrongSequenceCode THEN TRUE ELSE get]
    ELSE [reply |-> Res(Hash(m), NoErr), seq |-> seq + 1, get |-> get]

\* Variants of AccountResult with a plausible slip each.
\* getAccount is cleared before the error is looked at.
AccountResult_FailReady(ok, num, seq, get) ==
    IF ~ok
    THEN [failed |-> TRUE, num |-> 0, seq |-> 0, get |-> FALSE,
          reply |-> Res(ZeroHash, Err("failed to get account"))]
    ELSE [failed |-> FALSE, num |-> num, seq |-> seq, get |-> FALSE,
          reply |-> Res(ZeroHash, NoErr)]

\* The queried sequence is taken as the last one used, not the next one.
AccountResult_OffByOne(ok, num, seq, get) ==
    IF ~ok
    THEN [failed |-> TRUE, num |-> 0, seq |-> 0, get |-> get,
          reply |-> Res(ZeroHash, Err("failed to get account"))]
    ELSE [failed |-> FALSE, num |-> num, seq |-> seq + 1, get |-> FALSE,
          reply |-> Res(ZeroHash, NoErr)]

\* Lines 113-120 of Worker: the account query failed (ok = FALSE, the
\* retriever returns 0, 0, err) or returned (num, seq).
AccountResult(ok, num, seq, get) ==
    IF ~ok
    THEN [failed |-> TRUE, num |-> 0, seq |-> 0, get |-> get,
          reply |-> Res(ZeroHash, Err("failed to get account"))]
    ELSE [failed |-> FALSE, num |-> num, seq |-> seq, get |-> FALSE,
          reply |-> Res(ZeroHash, NoErr)]

\* -------------------------------------------------------------- history
\* One iteration of the Worker's loop: the request (id, m), the Worker's
\* locals when it was received (pre*), how the previous iteration ended
\* (prev*), the account query and its answer (q*), whether a query of the
\* fee estimate failed (feeFailed), the locals passed to sendMsg (send*), the envelope broadcast (tx), the node's answer and the
\* ledger's sequence then (lseq), and once done the result sent on ch.
NoIter == [id |-> 0, m |-> 0, preSeq |-> 0, preNum |-> 0, preGet |-> TRUE,
           prevKind |-> "none", prevSeq |-> 0,
           queries |-> 0, qok |-> FALSE, qseq |-> 0, qnum |-> 0,
           estimated |-> FALSE, feeFailed |-> FALSE, sendSeq |-> 0, sendNum |-> 0, tx |-> NoTx,
           broadcasts |-> 0, answered |-> FALSE, code |-> 0, lseq |-> 0,
           dupsAt |-> 0,
           done |-> FALSE, ch |-> 0, reply |-> Res(ZeroHash, NoErr)]

\* What happened to the request of iteration it, as the environment saw it.
QueryFailed(it) == it.queries > 0 /\ ~it.qok
BuildFailed(it) == it.estimated /\ ~it.tx.built
TransportFailed(it) == it.tx.built /\ ~it.answered
Accepted(it) == it.tx.built /\ it.answered /\ it.code = 0
Duplicate(it) == it.tx.built /\ it.answered /\ it.code = ErrTxInMempoolCacheCode
Mismatch(it) == it.tx.built /\ it.answered /\ it.code = ErrWrongSequenceCode
OtherRejection(it) ==
    /\ it.tx.built
    /\ it.answered
    /\ it.code \notin {0, ErrTxInMempoolCacheCode, ErrWrongSequenceCode}

Kind(it) ==
    CASE ~it.done -> "none"
      [] QueryFailed(it) -> "query failed"
      [] BuildFailed(it) -> "build failed"
      [] TransportFailed(it) -> "transport"
      [] Accepted(it) -> "accepted"
      [] Duplicate(it) -> "duplicate"
      [] Mismatch(it) -> "mismatch"
      [] OTHER -> "rejected"

\* The short record kept of every finished iteration.
Entry(it) ==
    [id |-> it.id, ch |-> it.ch, qok |-> it.qok, qseq |-> it.qseq,
     built |-> it.tx.built, seq |-> it.tx.Sequence,
     ok |-> it.reply.Error = NoErr]

\* ----------------------------------------------------------------- Init
\* A call of calculateFeePayerFees(gas) and of buildTx taken on its own: the
\* answers of the three queries (blk, bf, pr), the quote returned (amount,
\* err), the quote of a second call with the same answers (again), and what
\* buildTx makes of it (built).
NoQuote == [gas |-> 0, blk |-> "ok", bf |-> [kind |-> "err", val |-> 0],
            pr |-> [kind |-> "err", val |-> 0], stage |-> "none",
            amount |-> NilInt, err |-> NoErr,
            again |-> [amount |-> NilInt, err |-> NoErr],
            built |-> [panic |-> FALSE, err |-> NoErr, tx |-> NoTx]]

\* The relay after newFeePayer, with the Worker at the top of its loop.
RelayIdle ==
    /\ messages = <<>>
    /\ ret = [i \in ReqIds |-> <<>>]
    /\ nextRet = 1
    /\ pc = "select"
    /\ msg = NoMsg
    /\ accountSeq = 0
    /\ accountNum = 0
    /\ getAccount = TRUE
    /\ resp = NilResp
    /\ err = NoErr
    /\ ledgerSeq \in 0..MaxLedgerSeq
    /\ ledgerNum \in AccNums
    /\ ctxDone = FALSE
    /\ iter = NoIter
    /\ dups = 0
    /\ log = <<>>

Init ==
    /\ RelayIdle
    /\ quote = NoQuote

\* The process runs: a panic of the Worker goroutine ends it.
Alive == pc # "panic"

\* -------------------------------------------------------------- callers
\* Variant of enqueueMsg: a request that finds the queue full is dropped
\* (a non-blocking send) and the caller still gets its reply channel.
enqueueMsg_Drop(m) ==
    /\ Alive
    /\ m = nextRet
    /\ nextRet <= MaxReq
    /\ messages' = IF Len(messages) < QueueCap
                   THEN Append(messages, [Msg |-> m, EvmDenom |-> "aevmos", Ret |-> nextRet])
                   ELSE messages
    /\ nextRet' = nextRet + 1
    /\ UNCHANGED <<quote, ret, pc, msg, accountSeq, accountNum, getAccount, resp, err,
                   ledgerSeq, ledgerNum, ctxDone, iter, dups, log>>

\* Variant of enqueueMsg: all requests share the first reply channel.
enqueueMsg_SharedRet(m) ==
    /\ Alive
    /\ m = nextRet
    /\ nextRet <= MaxReq
    /\ Len(messages) < QueueCap
    /\ messages' = Append(messages, [Msg |-> m, EvmDenom |-> "aevmos", Ret |-> 1])
    /\ nextRet' = nextRet + 1
    /\ UNCHANGED <<quote, ret, pc, msg, accountSeq, accountNum, getAccount, resp, err,
                   ledgerSeq, ledgerNum, ctxDone, iter, dups, log>>

\* enqueueMsg(m, evmDenom) by any caller goroutine: make the reply channel,
\* send on fp.messages (blocks while the buffer is full), return the channel.
\* Every request carries a new Ethereum message (as the requests of
\* TestSendRawTransactionFeePayerSequence, one nonce each): message m is the
\* one of the m-th request.
enqueueMsg(m) ==
    /\ Alive
    /\ m = nextRet
    /\ nextRet <= MaxReq
    /\ Len(messages) < QueueCap
    /\ messages' = Append(messages, [Msg |-> m, EvmDenom |-> "aevmos", Ret |-> nextRet])
    /\ nextRet' = nextRet + 1
    /\ UNCHANGED <<quote, ret, pc, msg, accountSeq, accountNum, getAccount, resp, err,
                   ledgerSeq, ledgerNum, ctxDone, iter, dups, log>>

\* The caller that holds reply channel i reads its result; a caller that
\* has given up never does.
CallerReceive(i) ==
    /\ Alive
    /\ ret[i] # <<>>
    /\ ret' = [ret EXCEPT ![i] = Tail(@)]
    /\ UNCHANGED <<quote, messages, nextRet, pc, msg, accountSeq, accountNum, getAccount,
                   resp, err, ledgerSeq, ledgerNum, ctxDone, iter, dups, log>>

\* ---------------------------------------------------------- environment
\* The process-wide context is cancelled.
Shutdown ==
    /\ Alive
    /\ ~ctxDone
    /\ ctxDone' = TRUE
    /\ UNCHANGED <<quote, messages, ret, nextRet, pc, msg, accountSeq, accountNum,
                   getAccount, resp, err, ledgerSeq, ledgerNum, iter, dups, log>>

\* The sequence the account retriever reports moves without the Worker
\* (another signer of the same key, or a view that lags the mempool). The
\* Worker reads it in its account query only, so the move is taken there.
LedgerMoves ==
    /\ pc = "getAccount"
    /\ \E s \in 0..MaxLedgerSeq :
          /\ s # ledgerSeq
          /\ ledgerSeq' = s
    /\ UNCHANGED <<quote, messages, ret, nextRet, pc, msg, accountSeq, accountNum,
                   getAccount, resp, err, ledgerNum, ctxDone, iter, dups, log>>

\* --------------------------------------------------------------- Worker
\* ch <- r on a one-slot reply channel (blocks while it is full). Of the
\* buffered result the model keeps the hash and whether it carries an
\* error; the error sent is in iter.reply.
CanReply(ch) == Len(ret[ch]) < RetCap
Buffered(r) == [TxHash |-> r.TxHash, Failed |-> r.Error # NoErr]
Reply(ch, r) == ret' = [ret EXCEPT ![ch] = Append(@, Buffered(r))]

\* The iteration is over: its result r was sent on ch.
Finish(it, ch, r) ==
    LET d == [it EXCEPT !.done = TRUE, !.ch = ch, !.reply = r]
    IN  /\ iter' = d
        /\ log' = Append(log, Entry(d))

\* Variant of WorkerReceive: the account is queried for every request.
WorkerReceive_AlwaysQuery ==
    /\ pc = "select"
    /\ messages # <<>>
    /\ msg' = Head(messages)
    /\ messages' = Tail(messages)
    /\ pc' = "getAccount"
    /\ iter' = [NoIter EXCEPT !.id = Head(messages).Ret, !.m = Head(messages).Msg,
                              !.preSeq = accountSeq, !.preNum = accountNum,
                              !.preGet = getAccount,
                              !.prevKind = Kind(iter),
                              !.prevSeq = iter.tx.Sequence]
    /\ UNCHANGED <<quote, ret, nextRet, accountSeq, accountNum, getAccount, resp,
                   err, ledgerSeq, ledgerNum, ctxDone, dups, log>>

\* select: case msg = <-fp.messages
WorkerReceive ==
    /\ pc = "select"
    /\ messages # <<>>
    /\ msg' = Head(messages)
    /\ messages' = Tail(messages)
    /\ pc' = IF getAccount THEN "getAccount" ELSE "sendMsg"
    /\ iter' = [NoIter EXCEPT !.id = Head(messages).Ret, !.m = Head(messages).Msg,
                              !.preSeq = accountSeq, !.preNum = accountNum,
                              !.preGet = getAccount,
                              !.prevKind = Kind(iter),
                              !.prevSeq = iter.tx.Sequence]
    /\ UNCHANGED <<quote, ret, nextRet, accountSeq, accountNum, getAccount, resp,
                   err, ledgerSeq, ledgerNum, ctxDone, dups, log>>

\* Variant of WorkerReturn: on shutdown the Worker empties the queue and
\* fails every request it finds there.
WorkerReturn_Drain ==
    /\ pc = "select"
    /\ ctxDone
    /\ pc' = "returned"
    /\ messages' = <<>>
    /\ ret' = [i \in ReqIds |->
                 IF \E k \in DOMAIN messages : messages[k].Ret = i
                 THEN Append(ret[i], [TxHash |-> ZeroHash, Failed |-> TRUE])
                 ELSE ret[i]]
    /\ UNCHANGED <<quote, nextRet, msg, accountSeq, accountNum, getAccount, resp, err,
                   ledgerSeq, ledgerNum, ctxDone, iter, dups, log>>

\* select: case <-fp.ctx.Done(): return
WorkerReturn ==
    /\ pc = "select"
    /\ ctxDone
    /\ pc' = "returned"
    /\ UNCHANGED <<quote, messages, ret, nextRet, msg, accountSeq, accountNum,
                   getAccount, resp, err, ledgerSeq, ledgerNum, ctxDone, iter,
                   dups, log>>

\* if getAccount { ... }: lines 112-123
WorkerGetAccount ==
    /\ pc = "getAccount"
    /\ \E ok \in BOOLEAN :
          LET a == AccountResult(ok, ledgerNum, ledgerSeq, getAccount)
              it == [iter EXCEPT !.queries = @ + 1, !.qok = ok,
                                 !.qseq = IF ok THEN ledgerSeq ELSE 0,
                                 !.qnum = IF ok THEN ledgerNum ELSE 0]
          IN  /\ accountNum' = a.num
              /\ accountSeq' = a.seq
              /\ getAccount' = a.get
              /\ err' = IF a.failed THEN Err("account query failed") ELSE NoErr
              /\ IF a.failed
                 THEN /\ CanReply(msg.Ret)
                      /\ Reply(msg.Ret, a.reply)
                      /\ Finish(it, msg.Ret, a.reply)
                      /\ pc' = "select"
                      /\ UNCHANGED dups
                 ELSE /\ pc' = "sendMsg"
                      /\ iter' = it
                      /\ dups' = 0
                      /\ UNCHANGED <<ret, log>>
    /\ UNCHANGED <<quote, messages, nextRet, msg, resp, ledgerSeq, ledgerNum,
                   ctxDone>>

\* Lines 125-151: resp, err = fp.sendMsg(...), then classify, reply and count
\* the sequence; or the panic inside buildTx. A transaction the node accepts
\* (code 0) consumes the ledger's sequence.
WorkerSendMsg ==
    /\ pc = "sendMsg"
    /\ \E x \in {[out |-> sendMsg(msg.Msg, msg.EvmDenom, accountNum, accountSeq,
                                     blk, bf, pr, signOk, bc),
                     feeFailed |-> FeeQueryFailed(blk, bf, pr)] :
                        blk \in BlockResults, bf \in BaseFeeResults,
                        pr \in ParamsResults, signOk \in BOOLEAN,
                        bc \in BroadcastResults} :
          LET r == x.out
              accepted == r.tx.built /\ ~r.resp.isNil /\ r.resp.Code = 0
              duplicate == r.tx.built /\ ~r.resp.isNil
                           /\ r.resp.Code = ErrTxInMempoolCacheCode
              it == [iter EXCEPT !.estimated = TRUE, !.feeFailed = x.feeFailed,
                                 !.sendSeq = accountSeq,
                                 !.sendNum = accountNum, !.tx = r.tx,
                                 !.broadcasts = IF r.tx.built THEN 1 ELSE 0,
                                 !.answered = ~r.resp.isNil,
                                 !.code = r.resp.Code,
                                 !.lseq = ledgerSeq, !.dupsAt = dups]
              h == HandleResult(r.resp, r.err, msg.Msg, accountSeq, getAccount)
          IN  /\ resp' = r.resp
              /\ err' = r.err
              /\ ledgerSeq' = IF accepted THEN ledgerSeq + 1 ELSE ledgerSeq
              /\ dups' = IF duplicate THEN dups + 1 ELSE dups
              /\ IF r.panic
                 THEN /\ pc' = "panic"
                      /\ iter' = it
                      /\ UNCHANGED <<ret, accountSeq, getAccount, log>>
                 ELSE /\ CanReply(msg.Ret)
                      /\ Reply(msg.Ret, h.reply)
                      /\ accountSeq' = h.seq
                      /\ getAccount' = h.get
                      /\ Finish(it, msg.Ret, h.reply)
                      /\ pc' = "select"
    /\ UNCHANGED <<quote, messages, nextRet, msg, accountNum, ledgerNum, ctxDone>>

Worker ==
    \/ WorkerReceive
    \/ WorkerReturn
    \/ WorkerGetAccount
    \/ WorkerSendMsg

Next ==
    \/ \E m \in ReqIds : enqueueMsg(m)
    \/ \E i \in ReqIds : CallerReceive(i)
    \/ Shutdown
    \/ LedgerMoves
    \/ Worker

Spec == Init /\ [][Next]_vars

\* The ledger of the fee payer is moved by the Worker's accepted
\* transactions only.
NextLedger ==
    \/ \E m \in ReqIds : enqueueMsg(m)
    \/ \E i \in ReqIds : CallerReceive(i)
    \/ Shutdown
    \/ Worker

SpecLedger == Init /\ [][NextLedger]_vars

\* No shutdown is signalled, the Worker goroutine is scheduled and every
\* external call it makes returns: the Worker's next step is always taken.
WorkerRuns ==
    \/ WorkerReceive
    \/ WorkerGetAccount
    \/ WorkerSendMsg

NextLive ==
    \/ \E m \in ReqIds : enqueueMsg(m)
    \/ \E i \in ReqIds : CallerReceive(i)
    \/ LedgerMoves
    \/ WorkerRuns

SpecLive == Init /\ [][NextLive]_vars /\ WF_vars(WorkerRuns)

\* ------------------------------------------- the fee estimator on its own
relayVars == <<messages, ret, nextRet, pc, msg, accountSeq, accountNum,
               getAccount, resp, err, ledgerSeq, ledgerNum, ctxDone, iter,
               dups, log>>

\* Gas limits of the Ethereum message (uint64).
GasInputs == {0, 1, 21000, 100000}
\* Base fees the query client can return: sdkmath.Int values, zero and
\* negative ones included.
BaseFeeInputs ==
    {[kind |-> "err", val |-> 0], [kind |-> "absent", val |-> 0]} \cup
    {[kind |-> "value", val |-> f] : f \in (-2)..MaxBaseFee}
\* params.Params.BaseFeeChangeDenominator is a uint32; 0 makes big.Int.Div
\* panic and is left out.
ParamsInputs ==
    {[kind |-> "err", val |-> 0]} \cup
    {[kind |-> "value", val |-> d] : d \in 1..MaxDenominator}

InitFee ==
    /\ RelayIdle
    /\ \E g \in GasInputs, b \in BlockResults, f \in BaseFeeInputs,
          p \in ParamsInputs :
          quote = [NoQuote EXCEPT !.gas = g, !.blk = b, !.bf = f, !.pr = p,
                                  !.stage = "input"]

\* amount, err := fp.calculateFeePayerFees(gas)
Estimate ==
    /\ quote.stage = "input"
    /\ LET f == calculateFeePayerFees(quote.gas, quote.blk, quote.bf, quote.pr)
       IN  quote' = [quote EXCEPT !.stage = "estimated", !.amount = f.amount,
                                  !.err = f.err]
    /\ UNCHANGED relayVars

\* A second call, the three queries answering as before.
EstimateAgain ==
    /\ quote.stage = "estimated"
    /\ quote' = [quote EXCEPT !.stage = "again",
                    !.again = calculateFeePayerFees(quote.gas, quote.blk,
                                                    quote.bf, quote.pr)]
    /\ UNCHANGED relayVars

\* fp.buildTx of a message with that gas limit, the queries answering as
\* before.
Build ==
    /\ quote.stage = "again"
    /\ \E m \in ReqIds, signOk \in BOOLEAN :
          /\ GetGas(m) = quote.gas
          /\ quote' = [quote EXCEPT !.stage = "built",
                          !.built = buildTx(m, "aevmos", ledgerNum, ledgerSeq,
                                            quote.blk, quote.bf, quote.pr, signOk)]
    /\ UNCHANGED relayVars

NextFee ==
    \/ Estimate
    \/ EstimateAgain
    \/ Build

SpecFee == InitFee /\ [][NextFee]_vars

TypeOK ==
    /\ Len(messages) <= QueueCap
    /\ pc \in {"select", "getAccount", "sendMsg", "returned", "panic"}
    /\ \A i \in ReqIds : Len(ret[i]) <= RetCap
    /\ Len(log) <= MaxReq

\* ================================================================ claims
\* Requests the Worker has taken from the queue.
Dequeued == 1..(nextRet - 1 - Len(messages))
\* Results sent on reply channel i so far.
SentOn(i) == Cardinality({k \in DOMAIN log : log[k].ch = i})

\* C1: when every request processed so far succeeded, the k-th one was
\* signed with s + k - 1, s being the sequence the first iteration's account
\* query returned: no gap, no duplicate.
C1_ContiguousSequences ==
    (\A k \in DOMAIN log : log[k].ok)
        => \A k \in DOMAIN log :
              /\ log[1].qok
              /\ log[k].built
              /\ log[k].seq = log[1].qseq + (k - 1)

C1_Witness ==
    /\ Len(log) = 3
    /\ \A k \in DOMAIN log : log[k].ok
    /\ log[1].qseq = 1
    /\ log[3].seq = 3

\* C2: once the Worker is back at its select (or has stopped for good),
\* every request it dequeued has exactly one result, sent on its own
\* reply channel.
C2_EveryDequeuedAnswered ==
    /\ \A k \in DOMAIN log : log[k].ch = log[k].id
    /\ \A i \in ReqIds : SentOn(i) <= 1
    /\ pc \in {"select", "returned", "panic"}
          => \A i \in Dequeued : SentOn(i) = 1

\* C3: a sequence-mismatch answer gives an error result, leaves accountSeq
\* as it was, is broadcast once and not queued again; the next iteration
\* queries the account once and its answer is what sendMsg signs with.
C3_MismatchResync ==
    /\ (iter.done /\ Mismatch(iter))
          => /\ iter.reply = Res(ZeroHash, ABCIError(resp))
             /\ resp.Code = ErrWrongSequenceCode
             /\ accountSeq = iter.sendSeq
             /\ accountNum = iter.sendNum
             /\ getAccount
             /\ iter.broadcasts = 1
             /\ \A k \in DOMAIN messages : messages[k].Ret # iter.id
    /\ iter.prevKind = "mismatch"
          => /\ iter.preGet
             /\ pc # "getAccount" => iter.queries = 1
             /\ pc = "sendMsg" => (accountSeq = iter.qseq
                                   /\ accountNum = iter.qnum)
             /\ iter.tx.built => (iter.tx.Sequence = iter.qseq
                                  /\ iter.tx.AccountNumber = iter.qnum)

C3_Witness ==
    /\ iter.prevKind = "mismatch"
    /\ iter.tx.built
    /\ iter.qseq # iter.preSeq

\* C4: a duplicate-pending answer gives a result with the hash of the
\* request's message and no error, accountSeq one higher than the sequence
\* signed, and getAccount still false.
C4_DuplicateIsSuccess ==
    (iter.done /\ Duplicate(iter))
        => /\ iter.reply = Res(Hash(iter.m), NoErr)
           /\ iter.ch = iter.id
           /\ iter.tx.Sequence = iter.sendSeq
           /\ accountSeq = iter.sendSeq + 1
           /\ accountNum = iter.sendNum
           /\ ~getAccount

C4_Witness ==
    /\ iter.done
    /\ Duplicate(iter)
    /\ iter.m = 2
    /\ iter.reply.TxHash = Hash(2)
    /\ accountSeq = 2

\* C5: an answer with code 0: the envelope carries the cached account number
\* and sequence passed to sendMsg, the result is the message's hash with no
\* error, accountSeq is one higher and accountNum is the same.
C5_AcceptedCountsSequence ==
    (iter.done /\ Accepted(iter))
        => /\ iter.tx.Sequence = iter.sendSeq
           /\ iter.tx.AccountNumber = iter.sendNum
           /\ iter.tx.Msg = iter.m
           /\ iter.reply = Res(Hash(iter.m), NoErr)
           /\ accountSeq = iter.sendSeq + 1
           /\ accountNum = iter.sendNum
           /\ ~getAccount

C5_Witness ==
    /\ iter.done
    /\ Accepted(iter)
    /\ iter.queries = 0
    /\ iter.tx.AccountNumber = 2
    /\ iter.tx.Sequence = 1
    /\ accountSeq = 2

\* C6: a broadcast that fails with a transport error gives an error result
\* and leaves accountNum, accountSeq and getAccount as they were; the next
\* request is signed with the same sequence, without an account query.
C6_TransportErrorKeepsState ==
    /\ (iter.done /\ TransportFailed(iter))
          => /\ iter.reply = Res(ZeroHash, Err("broadcast failed"))
             /\ iter.ch = iter.id
             /\ accountSeq = iter.sendSeq
             /\ accountNum = iter.sendNum
             /\ ~getAccount
    /\ iter.prevKind = "transport"
          => /\ ~iter.preGet
             /\ pc # "getAccount"
             /\ iter.queries = 0
             /\ iter.tx.built => iter.tx.Sequence = iter.prevSeq

C6_Witness ==
    /\ iter.prevKind = "transport"
    /\ iter.tx.built
    /\ iter.tx.Sequence = 1
    /\ iter.done

\* C7: a rejection code other than duplicate-pending and sequence-mismatch
\* gives the rejection as the error, leaves accountSeq as it was and
\* getAccount false; the next request is processed without an account query.
C7_OtherRejectionKeepsState ==
    /\ (iter.done /\ OtherRejection(iter))
          => /\ iter.reply = Res(ZeroHash, ABCIError(resp))
             /\ resp.Code = iter.code
             /\ iter.ch = iter.id
             /\ accountSeq = iter.sendSeq
             /\ accountNum = iter.sendNum
             /\ ~getAccount
    /\ iter.prevKind = "rejected"
          => /\ ~iter.preGet
             /\ pc # "getAccount"
             /\ iter.queries = 0
             /\ iter.tx.built => iter.tx.Sequence = iter.prevSeq

C7_Witness ==
    /\ iter.prevKind = "rejected"
    /\ iter.tx.built
    /\ iter.tx.Sequence = 1
    /\ iter.done

\* C8: a failed account query gives the query error as the result, with no
\* fee estimate, envelope or broadcast for that request; the sequence is not
\* advanced, getAccount stays true and the next request queries again.
C8_FailedQueryStaysStale ==
    /\ (iter.done /\ QueryFailed(iter))
          => /\ iter.reply = Res(ZeroHash, Err("failed to get account"))
             /\ iter.ch = iter.id
             /\ iter.preGet
             /\ ~iter.estimated
             /\ ~iter.tx.built
             /\ iter.broadcasts = 0
             /\ accountSeq <= iter.preSeq
             /\ getAccount
    /\ iter.prevKind = "query failed"
          => /\ iter.preGet
             /\ pc # "getAccount" => iter.queries = 1
             /\ iter.tx.built => iter.tx.Sequence = iter.qseq

C8_Witness ==
    /\ iter.prevKind = "query failed"
    /\ iter.tx.built
    /\ iter.tx.Sequence = 1
    /\ Len(log) >= 2

\* Iterations i+1..j made no successful account query.
NoRefresh(i, j) == \A k \in (i + 1)..j : ~log[k].qok
\* Submissions i and j succeeded and none between them did.
ConsecutiveSuccesses(i, j) ==
    /\ i < j
    /\ log[i].ok
    /\ log[j].ok
    /\ \A k \in (i + 1)..(j - 1) : ~log[k].ok

\* C9 as stated: over any run, account refreshes included, a sequence used
\* by a successful submission is not used by a later submission, and two
\* consecutive successful submissions use sequences that differ by 1.
C9_NeverReusedAcrossRefresh ==
    \A i, j \in DOMAIN log :
        /\ (i < j /\ log[i].ok /\ log[j].built) => log[j].seq # log[i].seq
        /\ ConsecutiveSuccesses(i, j) => log[j].seq = log[i].seq + 1

\* C9 amended: the same, between two submissions with no successful account
\* query after the first of them.
C9_NeverReusedWithinEpoch ==
    \A i, j \in DOMAIN log :
        /\ (i < j /\ log[i].ok /\ log[j].built /\ NoRefresh(i, j))
              => log[j].seq > log[i].seq
        /\ (ConsecutiveSuccesses(i, j) /\ NoRefresh(i, j))
              => log[j].seq = log[i].seq + 1

C9_Witness ==
    /\ Len(log) = 3
    /\ log[1].ok
    /\ ~log[2].ok
    /\ log[2].built
    /\ log[3].ok
    /\ NoRefresh(1, 3)
    /\ log[3].seq = 2

\* C10 as stated, under SpecLedger: every envelope is signed with the
\* sequence the ledger has for the payer when it is broadcast.
C10_SignedWithLedgerSequence ==
    iter.tx.built => iter.tx.Sequence = iter.lseq

\* C10 amended, under SpecLedger: every envelope is signed with the ledger's
\* sequence plus the number of duplicate-pending answers since the last
\* account query; after a sequence mismatch that is the queried value, the
\* ledger's own.
C10_SignedWithLedgerPlusDuplicates ==
    /\ iter.tx.built => iter.tx.Sequence = iter.lseq + iter.dupsAt
    /\ (iter.tx.built /\ iter.prevKind = "mismatch")
          => (iter.dupsAt = 0 /\ iter.tx.Sequence = iter.qseq
              /\ iter.qseq = iter.lseq)

C10_Witness ==
    /\ iter.prevKind = "mismatch"
    /\ iter.tx.built
    /\ Accepted(iter)
    /\ iter.tx.Sequence = 2
    /\ iter.lseq = 2
    /\ Len(log) = 3

\* The request in slot k of the queue, requests being numbered in the order
\* of their enqueueMsg calls.
QueuedId(k) == nextRet - Len(messages) + k - 1

C12_EveryEnqueuedAnswered ==
    \A i \in ReqIds : (i < nextRet) ~> (i \in Dequeued /\ SentOn(i) = 1)

\* C12 without the panic of buildTx, under SpecLive: every enqueued request
\* is eventually answered unless the Worker goroutine has panicked.
C12_AnsweredUnlessPanic ==
    \A i \in ReqIds :
        (i < nextRet) ~> ((i \in Dequeued /\ SentOn(i) = 1) \/ pc = "panic")

\* The Worker returns only on shutdown, and can return at any wait on the
\* queue that follows the signal.
ExitsOnShutdownOnly ==
    /\ pc = "returned" => ctxDone
    /\ (ctxDone /\ pc = "select") => ENABLED WorkerReturn

\* A request the Worker never took has no result, read or unread.
UndequeuedUnanswered ==
    \A i \in ReqIds : i \notin Dequeued => (ret[i] = <<>> /\ SentOn(i) = 0)

\* The step in which the Worker returns takes nothing from the queue and
\* sends nothing.
ExitDoesNotDrain ==
    (pc # "returned" /\ pc' = "returned")
        => UNCHANGED <<messages, ret, log, iter, accountSeq, accountNum,
                       getAccount, ledgerSeq>>

\* Once the Worker has returned: it stays so, nothing leaves the queue, no
\* reply is sent (callers only read), no envelope is built or broadcast, and
\* the cached account number, sequence and getAccount stay as they are.
AfterExitNothingHappens ==
    pc = "returned"
        => /\ pc' = "returned"
           /\ Len(messages') >= Len(messages)
           /\ SubSeq(messages', 1, Len(messages)) = messages
           /\ \A i \in ReqIds : Len(ret'[i]) <= Len(ret[i])
           /\ UNCHANGED <<log, iter, accountSeq, accountNum, getAccount,
                          ledgerSeq, resp, err, msg>>

\* C13 as stated: once shutdown is signalled the Worker takes no further
\* request at a wait on the queue; it returns without draining the queue, a
\* request never dequeued has no reply, and after the return nothing is
\* broadcast and the cached account state does not change.
C13_StopsAtNextWait ==
    /\ [](ExitsOnShutdownOnly /\ UndequeuedUnanswered)
    /\ [][(ctxDone /\ pc = "select") => pc' \in {"select", "returned"}]_vars
    /\ [][ExitDoesNotDrain /\ AfterExitNothingHappens]_vars

\* C13 amended: after the shutdown signal the Worker returns at one of its
\* next waits on the queue (at a wait where a request is queued too, the
\* select may take the request instead, which is then processed and answered
\* as usual); it returns without draining the queue, a request never dequeued
\* has no reply, and after the return nothing is broadcast and the cached
\* account state does not change.
C13_ExitsWithoutDraining ==
    /\ [](ExitsOnShutdownOnly /\ UndequeuedUnanswered)
    /\ [][ExitDoesNotDrain /\ AfterExitNothingHappens]_vars

\* The Worker has returned with a request still queued, after it answered
\* another one.
C13_Witness ==
    /\ pc = "returned"
    /\ messages # <<>>
    /\ Len(log) >= 1
    /\ \A k \in DOMAIN messages : ret[messages[k].Ret] = <<>>

\* The call of quote had its three queries answered, with a non-zero base
\* fee and a positive denominator.
QuotedNonZero ==
    /\ quote.stage \in {"estimated", "again", "built"}
    /\ quote.blk = "ok"
    /\ quote.bf.kind = "value"
    /\ quote.bf.val # 0
    /\ quote.pr.kind = "value"
    /\ quote.pr.val > 0

\* q = floor(n / d) for d > 0, without the division.
IsFloor(q, n, d) == q * d <= n /\ n < (q + 1) * d

\* C14, under SpecFee: for a non-zero base fee, a positive denominator and
\* any gas limit, calculateFeePayerFees returns no error and exactly
\* max(floor(baseFee * (denominator+1)^2 / denominator^2), 2) * gas, the floor
\* being taken once, of the exact product; a second call with the same
\* inputs returns the same quote.
C14_ExactEscalatedQuote ==
    /\ QuotedNonZero
          => /\ quote.err = NoErr
             /\ ~quote.amount.isNil
             /\ \E q \in (-12)..(4 * MaxBaseFee) :
                   /\ IsFloor(q, quote.bf.val * (quote.pr.val + 1) * (quote.pr.val + 1),
                              quote.pr.val * quote.pr.val)
                   /\ quote.amount.i = (IF q > 2 THEN q ELSE 2) * quote.gas
    /\ quote.stage \in {"again", "built"}
          => quote.again = [amount |-> quote.amount, err |-> quote.err]

\* Base fee 123, denominator 8, gas 100000: floor(123 * 81 / 64) = 155.
C14_Witness ==
    /\ quote.stage = "again"
    /\ quote.bf = [kind |-> "value", val |-> 123]
    /\ quote.pr = [kind |-> "value", val |-> 8]
    /\ quote.gas = 100000
    /\ quote.amount = NewInt(15500000)
    /\ quote.again.amount = NewInt(15500000)

\* The call of quote had its block and base-fee queries answered, with a
\* base fee of exactly zero.
QuotedZero ==
    /\ quote.blk = "ok"
    /\ quote.bf = [kind |-> "value", val |-> 0]

\* C15, under SpecFee: with a base fee of exactly zero the estimator returns
\* amount zero and no error, buildTx then builds an envelope (unless signing
\* fails) whose fee list is empty; and every envelope built carries a fee
\* entry exactly when its quote is strictly positive.
C15_ZeroBaseFeeNoFeeEntry ==
    /\ (QuotedZero /\ quote.stage \in {"estimated", "again", "built"})
          => (quote.err = NoErr /\ quote.amount.i = 0)
    /\ (QuotedZero /\ quote.stage = "built")
          => /\ ~quote.built.panic
             /\ quote.built.err \in {NoErr, Err("failed to sign transaction")}
             /\ quote.built.tx.built => quote.built.tx.Fees = <<>>
    /\ (quote.stage = "built" /\ quote.built.tx.built)
          => (quote.built.tx.Fees # <<>> <=> quote.amount.i > 0)

\* C16: when a query of the fee estimate fails or the base fee is absent,
\* no envelope is built or signed and nothing is broadcast for the request;
\* its result is the estimator's error on its own reply channel, accountNum
\* and accountSeq are those passed to sendMsg, the ledger's sequence has not
\* moved and getAccount is false (the Worker is Ready).
C16_FeeFailureSubmitsNothing ==
    (iter.estimated /\ iter.feeFailed)
        => /\ pc # "panic"
           /\ iter.done
           /\ ~iter.tx.built
           /\ iter.broadcasts = 0
           /\ ~iter.answered
           /\ resp = NilResp
           /\ err.kind \in {"failed to query latest block",
                            "failed to query base fee",
                            "failed to query params"}
           /\ iter.reply = Res(ZeroHash, err)
           /\ iter.ch = iter.id
           /\ accountSeq = iter.sendSeq
           /\ accountNum = iter.sendNum
           /\ ledgerSeq = iter.lseq
           /\ ~getAccount

\* The second request's fee-market parameters could not be read; the first
\* one had been accepted with sequence 1.
C16_Witness ==
    /\ iter.estimated
    /\ iter.feeFailed
    /\ err.kind = "failed to query params"
    /\ iter.id = 2
    /\ iter.queries = 0
    /\ iter.prevKind = "accepted"
    /\ accountSeq = 2

\* The two shapes of a result for message m.
IsSuccess(r, m) == r.TxHash = Hash(m) /\ r.TxHash # ZeroHash /\ r.Error = NoErr
IsFailure(r) == r.TxHash = ZeroHash /\ r.Error # NoErr

\* C17: every result the Worker sends is either the hash of the request's
\* message with no error, or an error with the zero hash, never both and
\* never neither; so is every result waiting on a reply channel.
C17_ResultHashXorError ==
    /\ iter.done
          => /\ IsSuccess(iter.reply, iter.m) \/ IsFailure(iter.reply)
             /\ ~(IsSuccess(iter.reply, iter.m) /\ IsFailure(iter.reply))
             /\ (iter.reply.TxHash # ZeroHash) # (iter.reply.Error # NoErr)
    /\ \A i \in ReqIds : \A k \in DOMAIN ret[i] :
          \/ (ret[i][k].TxHash = Hash(i) /\ ~ret[i][k].Failed)
          \/ (ret[i][k].TxHash = ZeroHash /\ ret[i][k].Failed)

\* A success waits on the first reply channel and a failure on the second.
C17_Witness ==
    /\ ret[1] = <<[TxHash |-> Hash(1), Failed |-> FALSE]>>
    /\ ret[2] = <<[TxHash |-> ZeroHash, Failed |-> TRUE]>>
    /\ iter.done
    /\ iter.id = 2
    /\ IsFailure(iter.reply)
    /\ iter.reply.Error.kind = "abci"

\* C18: for each dequeued request the Worker makes at most one account query
\* and at most one broadcast; it queries exactly when getAccount was true on
\* receiving the request, which is the case on the first request, after a
\* sequence mismatch and after a failed account query, and never otherwise;
\* and a request it has answered is not put back on the queue, so it is not
\* broadcast a second time.
C18_NoRetryInLoop ==
    /\ iter.queries <= 1
    /\ iter.broadcasts <= 1
    /\ pc = "getAccount" => (getAccount /\ iter.preGet /\ iter.queries = 0)
    /\ pc = "sendMsg" => (~getAccount /\ iter.broadcasts = 0)
    /\ iter.queries = 1 => iter.preGet
    /\ (iter.id # 0 /\ pc # "getAccount") => (iter.queries = 1 <=> iter.preGet)
    /\ iter.id # 0
          => (iter.preGet
                 <=> iter.prevKind \in {"none", "mismatch", "query failed"})
    /\ \A j, k \in DOMAIN log : j # k => log[j].id # log[k].id
    /\ \A j \in DOMAIN messages :
          /\ messages[j].Ret # iter.id
          /\ \A k \in DOMAIN log : messages[j].Ret # log[k].id

\* The third request is broadcast once, without an account query, after the
\* second one failed in transport; neither failed request is queued again.
C18_Witness ==
    /\ Len(log) = 3
    /\ log[1].qok
    /\ ~log[2].ok
    /\ iter.prevKind = "transport"
    /\ iter.queries = 0
    /\ iter.broadcasts = 1
    /\ iter.done

\* C19: whenever the Worker holds a request, the request's reply channel is
\* empty and has had no result yet, so the send of the result does not
\* block and the Worker's step can be taken, whatever the callers have read
\* or left unread; no reply channel ever gets more than one result or holds
\* more than its one slot.
C19_ReplyNeverBlocks ==
    /\ pc \in {"getAccount", "sendMsg"}
          => /\ ret[msg.Ret] = <<>>
             /\ SentOn(msg.Ret) = 0
             /\ CanReply(msg.Ret)
    /\ pc = "getAccount" => ENABLED WorkerGetAccount
    /\ pc = "sendMsg" => ENABLED WorkerSendMsg
    /\ \A i \in ReqIds : Len(ret[i]) <= RetCap /\ SentOn(i) <= 1

\* Three requests were answered and no caller has read its result.
C19_Witness ==
    /\ Len(log) = 3
    /\ \A i \in 1..3 : ret[i] # <<>>
    /\ pc = "select"

\* Two outcomes of HandleResult agree on everything but the codespace named
\* in the error.
SameButCodespace(h1, h2) ==
    /\ h1.seq = h2.seq
    /\ h1.get = h2.get
    /\ h1.reply.TxHash = h2.reply.TxHash
    /\ h1.reply.Error.kind = h2.reply.Error.kind
    /\ h1.reply.Error.code = h2.reply.Error.code

\* C20: the code of the node's answer alone decides the result: codes 0 and
\* 19 give the hash and count the sequence, every other code gives an error
\* and leaves the sequence, and code 32 alone sets getAccount; the codespace
\* only appears in the error sent. At every broadcast, two answers with the
\* same code and different codespaces would give the same kind of result,
\* the same accountSeq and the same getAccount.
C20_CodeAloneClassifies ==
    /\ (iter.done /\ iter.answered)
          => /\ resp.Code = iter.code
             /\ iter.reply.Error = NoErr
                   <=> iter.code \in {0, ErrTxInMempoolCacheCode}
             /\ accountSeq = iter.sendSeq
                   + (IF iter.code \in {0, ErrTxInMempoolCacheCode} THEN 1 ELSE 0)
             /\ getAccount <=> iter.code = ErrWrongSequenceCode
             /\ iter.reply.Error # NoErr
                   => iter.reply.Error = [kind |-> "abci", code |-> iter.code,
                                          codespace |-> resp.Codespace]
    /\ pc = "sendMsg"
          => \A c \in Codes : \A cs1, cs2 \in Codespaces :
                SameButCodespace(
                    HandleResult(Resp(c, cs1), NoErr, msg.Msg, accountSeq, getAccount),
                    HandleResult(Resp(c, cs2), NoErr, msg.Msg, accountSeq, getAccount))

\* The node answered with code 19 in a codespace other than the SDK's and
\* the request succeeded.
C20_Witness ==
    /\ iter.done
    /\ Duplicate(iter)
    /\ resp.Codespace = "evm"
    /\ iter.reply = Res(Hash(iter.m), NoErr)
    /\ accountSeq = iter.sendSeq + 1
    /\ ~getAccount

\* C21, under SpecFee: for a non-zero base fee, a positive denominator and
\* any gas limit, the quote is at least baseFee * gas and at least 2 * gas;
\* with a positive base fee and a positive gas limit it is never zero.
C21_QuoteAtLeastBaseFee ==
    QuotedNonZero
        => /\ quote.err = NoErr
           /\ ~quote.amount.isNil
           /\ quote.amount.i >= quote.bf.val * quote.gas
           /\ quote.amount.i >= 2 * quote.gas
           /\ (quote.bf.val > 0 /\ quote.gas > 0) => quote.amount.i > 0

\* Base fee 1, denominator 8, gas 21000: floor(81 / 64) = 1 is raised to 2.
C21_Witness ==
    /\ quote.stage = "estimated"
    /\ quote.bf = [kind |-> "value", val |-> 1]
    /\ quote.pr = [kind |-> "value", val |-> 8]
    /\ quote.gas = 21000
    /\ quote.amount = NewInt(42000)

====
